---- MODULE Spec2Model ----
(***************************************************************************)
(* Contour tracing (STPR/contour_tracing, Rust): the scanner bits_to_paths *)
(* and the boundary walker trace_bits of src/rust/src/array.rs, as a state *)
(* machine.  One action per branch of the scan loop body and per arm of    *)
(* the walking and closing loops.  Every action is "guard on the current   *)
(* state, then replace the state by a pure function of it", so that the    *)
(* same step functions can also be iterated by Run to obtain the result of *)
(* a whole call on another input.  The image backend, single_l8_to_paths   *)
(* and trace_single_l8 of src/rust/src/image.rs, is a second function over *)
(* the same state, with its own actions.                                   *)
(***************************************************************************)
EXTENDS Integers, Sequences, FiniteSets, TLC

\* Bounds of the explored inputs: grids of at most MaxRows x MaxCols with at
\* most MaxCells cells, each also surrounded by a one-cell foreground frame.
MaxRows == 3
MaxCols == 3
MaxCells == 9

\* usize arithmetic is modular; the modulus is scaled down from 2^64 so that
\* it fits the model checker's integers.  A wrapped value is still far
\* larger than any grid coordinate.
UsizeModulus == 65536

ZeroBased(seq) == [i \in 0..(Len(seq) - 1) |-> seq[i + 1]]

MN ==
  ZeroBased(<< <<0, -1>>, <<1, -1>>, <<1, 0>>, <<1, 1>>,
               <<0, 1>>, <<-1, 1>>, <<-1, 0>>, <<-1, -1>> >>)

\* Mutant of O_VERTEX_WITH_BORDER: the entry of the north orientation lacks
\* its offset.
O_VERTEX_WITHOUT_NORTH ==
  ZeroBased(<< <<0, 0>>, <<0, 0>>, <<-1, -1>>, <<0, 0>>,
               <<0, -1>>, <<0, 0>>, <<0, 0>> >>)

O_VERTEX_WITH_BORDER ==
  ZeroBased(<< <<-1, 0>>, <<0, 0>>, <<-1, -1>>, <<0, 0>>,
               <<0, -1>>, <<0, 0>>, <<0, 0>> >>)

\* Mutant of H_VERTEX_WITH_BORDER: the north orientation has the vertex of
\* the south one, one less in both coordinates.
H_VERTEX_NORTH_AS_SOUTH ==
  ZeroBased(<< <<-1, -1>>, <<0, 0>>, <<-1, 0>>, <<0, 0>>,
               <<-1, -1>>, <<0, 0>>, <<0, -1>> >>)

H_VERTEX_WITH_BORDER ==
  ZeroBased(<< <<0, 0>>, <<0, 0>>, <<-1, 0>>, <<0, 0>>,
               <<-1, -1>>, <<0, 0>>, <<0, -1>> >>)

\* Mutant of O_VALUE_FOR_SIGNED: north adds the delta of east.
O_VALUE_EAST_FOR_NORTH == ZeroBased(<<2, 0, 2, 0, 4, 0, 8>>)

\* Mutant of O_VALUE_FOR_SIGNED: the deltas of north and south are exchanged.
O_VALUE_SOUTH_FOR_NORTH == ZeroBased(<<4, 0, 2, 0, 1, 0, 8>>)

O_VALUE_FOR_SIGNED == ZeroBased(<<1, 0, 2, 0, 4, 0, 8>>)

H_VALUE_FOR_SIGNED == ZeroBased(<<-4, 0, -8, 0, -1, 0, -2>>)

\* Mutant of OutlineArgs: the vertex table of the unbordered image backend
\* is passed with the bordered grid.
OutlineArgsNoBorder ==
  [outline |-> TRUE, o |-> ZeroBased(<<2, 3, 4, 5, 6, 7, 0, 1>>), rot |-> 2,
   viv |-> <<7, 1, 0>>,
   vertex |-> ZeroBased(<< <<0, 1>>, <<0, 0>>, <<0, 0>>, <<0, 0>>,
                           <<1, 0>>, <<0, 0>>, <<1, 1>> >>),
   value |-> O_VALUE_FOR_SIGNED]

\* Mutant of OutlineArgs: the closing loop of an outline ends at the west
\* orientation.
OutlineArgsWestEnd ==
  [outline |-> TRUE, o |-> ZeroBased(<<2, 3, 4, 5, 6, 7, 0, 1>>), rot |-> 2,
   viv |-> <<7, 1, 6>>, vertex |-> O_VERTEX_WITH_BORDER,
   value |-> O_VALUE_FOR_SIGNED]

\* The arguments of the two call sites of trace_bits.
OutlineArgs ==
  [outline |-> TRUE, o |-> ZeroBased(<<2, 3, 4, 5, 6, 7, 0, 1>>), rot |-> 2,
   viv |-> <<7, 1, 0>>, vertex |-> O_VERTEX_WITH_BORDER,
   value |-> O_VALUE_FOR_SIGNED]

\* Mutant of HoleArgs: the orientation array of the outlines is passed.
HoleArgsEast ==
  [outline |-> FALSE, o |-> ZeroBased(<<2, 3, 4, 5, 6, 7, 0, 1>>), rot |-> -2,
   viv |-> <<1, 7, 6>>, vertex |-> H_VERTEX_WITH_BORDER,
   value |-> H_VALUE_FOR_SIGNED]

\* Mutant of HoleArgs: a hole is reported with the vertex table of the outlines.
HoleArgsOutlineVertex ==
  [outline |-> FALSE, o |-> ZeroBased(<<4, 5, 6, 7, 0, 1, 2, 3>>), rot |-> -2,
   viv |-> <<1, 7, 6>>, vertex |-> O_VERTEX_WITH_BORDER,
   value |-> H_VALUE_FOR_SIGNED]

HoleArgs ==
  [outline |-> FALSE, o |-> ZeroBased(<<4, 5, 6, 7, 0, 1, 2, 3>>), rot |-> -2,
   viv |-> <<1, 7, 6>>, vertex |-> H_VERTEX_WITH_BORDER,
   value |-> H_VALUE_FOR_SIGNED]

\* The locals of trace_bits outside a call.
NoArgs ==
  [outline |-> FALSE, o |-> ZeroBased(<<0, 0, 0, 0, 0, 0, 0, 0>>), rot |-> 0,
   viv |-> <<0, 0, 0>>, vertex |-> O_VERTEX_WITH_BORDER,
   value |-> O_VALUE_FOR_SIGNED]

VARIABLES
  fn,            \* the running function: "bits_to_paths", "single_l8_to_paths"
  bits,          \* the caller's grid, rows of 0/1; for an image, 1 where the
                 \* caller's pixel has the foreground value
  closepaths,    \* the option
  buffer,        \* the caller's image: width, height, pixels[y][x]
  luma,          \* the foreground value
  contours,      \* the bordered counter grid, contours[y][x]
  paths,         \* the output string, a sequence of characters
  ol, hl,        \* outline and hole level of the scanner
  cursor_x, cursor_y,   \* the scanner's position
  pc,            \* "rewrite", "row", "scan", "walk", "close", "levels",
                 \* "done"
  args,          \* the arguments of the running trace call
  o,             \* its orientation array
  tracer_x, tracer_y,   \* its position
  vertices_nbr,  \* its vertex count
  calls          \* history: <<outline, cursor_x, cursor_y>> of every call

vars ==
  <<fn, bits, closepaths, buffer, luma, contours, paths, ol, hl, cursor_x, cursor_y, pc, args,
    o, tracer_x, tracer_y, vertices_nbr, calls>>

State ==
  [fn |-> fn, bits |-> bits, closepaths |-> closepaths, buffer |-> buffer,
   luma |-> luma, contours |-> contours,
   paths |-> paths, ol |-> ol, hl |-> hl, cursor_x |-> cursor_x,
   cursor_y |-> cursor_y, pc |-> pc, args |-> args, o |-> o,
   tracer_x |-> tracer_x, tracer_y |-> tracer_y,
   vertices_nbr |-> vertices_nbr, calls |-> calls]

Apply(t) ==
  /\ fn' = t.fn
  /\ bits' = t.bits
  /\ closepaths' = t.closepaths
  /\ buffer' = t.buffer
  /\ luma' = t.luma
  /\ contours' = t.contours
  /\ paths' = t.paths
  /\ ol' = t.ol
  /\ hl' = t.hl
  /\ cursor_x' = t.cursor_x
  /\ cursor_y' = t.cursor_y
  /\ pc' = t.pc
  /\ args' = t.args
  /\ o' = t.o
  /\ tracer_x' = t.tracer_x
  /\ tracer_y' = t.tracer_y
  /\ vertices_nbr' = t.vertices_nbr
  /\ calls' = t.calls

----------------------------------------------------------------------------
\* Library functions used by the code.

abs(v) == IF v < 0 THEN -v ELSE v

rem_euclid(a, n) == a % n

wrapping_add(a, d) == (a + d) % UsizeModulus

rotate_left(arr, k) == [i \in 0..7 |-> arr[(i + k) % 8]]

rotate_right(arr, k) == [i \in 0..7 |-> arr[(i + 8 - k) % 8]]

DigitChar == ZeroBased(<<"0", "1", "2", "3", "4", "5", "6", "7", "8", "9">>)

\* format!("{}", n) of an unsigned integer: its decimal digits.
RECURSIVE Display(_)
Display(n) ==
  IF n < 10 THEN <<DigitChar[n]>>
  ELSE Display(n \div 10) \o <<DigitChar[n % 10]>>

rows(s) == Len(s.bits)

cols(s) == Len(s.bits[1])

----------------------------------------------------------------------------
\* bits_to_paths: construction.

new_contours(b) ==
  [y \in 0..(Len(b) + 1) |->
    [x \in 0..(Len(b[1]) + 1) |->
      IF y \in 1..Len(b) /\ x \in 1..Len(b[1])
      THEN (IF b[y][x] = 1 THEN 1 ELSE -1)
      ELSE 0]]

\* let cols = bits[0].len() indexes the first row; 0..=cols - 1_usize
\* subtracts from zero (a panic where overflow is checked, else the range
\* wraps and bits[r][0] is indexed); bits[r][c] indexes every row up to cols.
construction_panics(b) ==
  \/ Len(b) = 0
  \/ Len(b[1]) = 0
  \/ \E r \in 1..Len(b) : Len(b[r]) < Len(b[1])

NoBuffer == [width |-> 0, height |-> 0, pixels |-> <<>>]

bits_to_paths(b, cp) ==
  [fn |-> "bits_to_paths", bits |-> b, closepaths |-> cp,
   buffer |-> NoBuffer, luma |-> 0, contours |-> new_contours(b),
   paths |-> <<>>, ol |-> 0, hl |-> 0, cursor_x |-> 1, cursor_y |-> 1,
   pc |-> "row", args |-> NoArgs, o |-> NoArgs.o, tracer_x |-> 0,
   tracer_y |-> 0, vertices_nbr |-> 0, calls |-> <<>>]

\* The call for any vector of vectors: the construction panics or the scan
\* starts.
call_bits_to_paths(b, cp) ==
  IF construction_panics(b)
  THEN [bits_to_paths(<<<<0>>>>, cp) EXCEPT
         !.bits = b, !.contours = <<>>, !.pc = "panic"]
  ELSE bits_to_paths(b, cp)

----------------------------------------------------------------------------
\* trace_bits: the pieces of one loop iteration.

neighbors(s) ==
  ZeroBased(<<
    s.contours[s.tracer_y - 1][s.tracer_x],
    s.contours[s.tracer_y - 1][s.tracer_x + 1],
    s.contours[s.tracer_y][s.tracer_x + 1],
    s.contours[s.tracer_y + 1][s.tracer_x + 1],
    s.contours[s.tracer_y + 1][s.tracer_x],
    s.contours[s.tracer_y + 1][s.tracer_x - 1],
    s.contours[s.tracer_y][s.tracer_x - 1],
    s.contours[s.tracer_y - 1][s.tracer_x - 1] >>)

\* Mutant of rn: the third test of an outline reads o[3] for o[2].
rn_behind(s) ==
  LET n == neighbors(s) IN
  IF s.args.outline
  THEN (IF n[s.o[7]] > 0 /\ n[s.o[0]] > 0 THEN 1
        ELSE IF n[s.o[0]] > 0 THEN 2
        ELSE IF n[s.o[1]] > 0 /\ n[s.o[3]] > 0 THEN 3
        ELSE 0)
  ELSE (IF n[s.o[1]] < 0 /\ n[s.o[0]] < 0 THEN 1
        ELSE IF n[s.o[0]] < 0 THEN 2
        ELSE IF n[s.o[7]] < 0 /\ n[s.o[6]] < 0 THEN 3
        ELSE 0)

rn(s) ==
  LET n == neighbors(s) IN
  IF s.args.outline
  THEN (IF n[s.o[7]] > 0 /\ n[s.o[0]] > 0 THEN 1
        ELSE IF n[s.o[0]] > 0 THEN 2
        ELSE IF n[s.o[1]] > 0 /\ n[s.o[2]] > 0 THEN 3
        ELSE 0)
  ELSE (IF n[s.o[1]] < 0 /\ n[s.o[0]] < 0 THEN 1
        ELSE IF n[s.o[0]] < 0 THEN 2
        ELSE IF n[s.o[7]] < 0 /\ n[s.o[6]] < 0 THEN 3
        ELSE 0)

\* contours[tracer_y][tracer_x] += value[o[0]]
stamp(s) ==
  [s EXCEPT !.contours[s.tracer_y][s.tracer_x] = @ + s.args.value[s.o[0]]]

\* tracer_x/y = tracer_x/y.wrapping_add(MN[o[k]] as usize)
advance(s, k) ==
  [s EXCEPT !.tracer_x = wrapping_add(s.tracer_x, MN[s.o[k]][1]),
            !.tracer_y = wrapping_add(s.tracer_y, MN[s.o[k]][2])]

turn_left(s) ==
  [s EXCEPT !.o = rotate_left(s.o, rem_euclid(s.args.rot, 8))]

turn_right(s) ==
  [s EXCEPT !.o = rotate_right(s.o, rem_euclid(s.args.rot, 8))]

\* vertices_nbr += 1; if o[0] == 0 || o[0] == 4 { push H x } else { push V y }
push_vertex(s) ==
  [s EXCEPT
    !.vertices_nbr = @ + 1,
    !.paths =
      IF s.o[0] = 0 \/ s.o[0] = 4
      THEN @ \o <<"H">>
             \o Display(wrapping_add(s.tracer_x, s.args.vertex[s.o[0]][1]))
      ELSE @ \o <<"V">>
             \o Display(wrapping_add(s.tracer_y, s.args.vertex[s.o[0]][2]))]

\* Mutant of loop_end: the vertex count is not looked at.
loop_end_at_start(s) ==
  [s EXCEPT !.pc =
    IF s.tracer_x = s.cursor_x /\ s.tracer_y = s.cursor_y
    THEN "close" ELSE "walk"]

\* if tracer_x == cursor_x && tracer_y == cursor_y && vertices_nbr > 2 { break }
loop_end(s) ==
  [s EXCEPT !.pc =
    IF s.tracer_x = s.cursor_x /\ s.tracer_y = s.cursor_y
       /\ s.vertices_nbr > 2
    THEN "close" ELSE "walk"]

\* Mutant of trace_bits: the M command carries the cursor itself, without the
\* vertex offset of the start orientation.
trace_bits_at_cursor(s, a) ==
  [s EXCEPT
    !.args = a,
    !.o = a.o,
    !.tracer_x = s.cursor_x,
    !.tracer_y = s.cursor_y,
    !.vertices_nbr = 1,
    !.paths = @ \o <<"M">> \o Display(s.cursor_x) \o <<" ">>
                \o Display(s.cursor_y),
    !.calls = Append(@, <<a.outline, s.cursor_x, s.cursor_y>>),
    !.pc = "walk"]

\* Entry of trace_bits: the locals and the M command.
trace_bits(s, a) ==
  [s EXCEPT
    !.args = a,
    !.o = a.o,
    !.tracer_x = s.cursor_x,
    !.tracer_y = s.cursor_y,
    !.vertices_nbr = 1,
    !.paths = @ \o <<"M">>
                \o Display(wrapping_add(s.cursor_x, a.vertex[a.o[0]][1]))
                \o <<" ">>
                \o Display(wrapping_add(s.cursor_y, a.vertex[a.o[0]][2])),
    !.calls = Append(@, <<a.outline, s.cursor_x, s.cursor_y>>),
    !.pc = "walk"]

\* match rn { 1 => ... }
walk_1(s) ==
  loop_end(push_vertex(turn_right(advance(stamp(s), s.args.viv[1]))))

\* Mutant of walk_2: the straight step reports a vertex.
walk_2_vertex(s) == loop_end(push_vertex(advance(stamp(s), 0)))

\* Mutant of walk_2: the cell is left without its stamp.
walk_2_unstamped(s) == loop_end(advance(s, 0))

\* match rn { 2 => ... }
walk_2(s) == loop_end(advance(stamp(s), 0))

\* Mutant of walk_3: the second stamp is missing.
walk_3_one_stamp(s) ==
  loop_end(push_vertex(advance(turn_right(
    push_vertex(turn_left(stamp(s)))), s.args.viv[2])))

\* match rn { 3 => ... }
walk_3(s) ==
  loop_end(push_vertex(advance(turn_right(
    push_vertex(stamp(turn_left(stamp(s))))), s.args.viv[2])))

\* Mutant of walk_0: the tracer also steps ahead, onto the cell it could not
\* reach.
walk_0_advancing(s) ==
  loop_end(push_vertex(turn_left(advance(stamp(s), 0))))

\* match rn { _ => ... }
walk_0(s) == loop_end(push_vertex(turn_left(stamp(s))))

\* Mutant of close_turn: the iteration does not stamp.
close_turn_unstamped(s) == push_vertex(turn_left(s))

\* Second loop, an iteration that does not break.
close_turn(s) == push_vertex(turn_left(stamp(s)))

\* if closepaths { paths.push('Z'); } and the return: the locals are gone.
leave(s) ==
  [s EXCEPT
    !.paths = IF s.closepaths THEN @ \o <<"Z">> ELSE @,
    !.args = NoArgs,
    !.o = NoArgs.o,
    !.tracer_x = 0,
    !.tracer_y = 0,
    !.vertices_nbr = 0,
    !.pc = "levels"]

\* Mutant of close_return: the option is read inverted.
close_return_inverted(s) ==
  [leave(stamp(s)) EXCEPT
    !.paths = IF ~s.closepaths THEN s.paths \o <<"Z">> ELSE s.paths]

\* Mutant of close_return: with closepaths the last stamp is left out.
close_return_unstamped(s) ==
  leave(IF s.closepaths THEN s ELSE stamp(s))

\* Second loop, the iteration that breaks, then the Z and the return.
close_return(s) == leave(stamp(s))

----------------------------------------------------------------------------
\* bits_to_paths: the scan.

\* for cursor_y in 1..=rows { ol = 0; hl = 0; for cursor_x in 1..=cols
row_start(s) ==
  [s EXCEPT !.ol = 0, !.hl = 0, !.cursor_x = 1, !.pc = "scan"]

\* Mutant of outline_start: the levels are not compared.
outline_start_any_level(s) ==
  s.contours[s.cursor_y][s.cursor_x] = 1

outline_start(s) ==
  s.ol = s.hl /\ s.contours[s.cursor_y][s.cursor_x] = 1

hole_start(s) ==
  ~outline_start(s) /\ s.ol > s.hl
  /\ s.contours[s.cursor_y][s.cursor_x] = -1

\* Mutant of levels: the sign of the counter is not looked at.
levels_sign_blind(s) ==
  LET v == s.contours[s.cursor_y][s.cursor_x]
      up == abs(v) \in {2, 4, 10, 12}
      down == abs(v) \in {5, 7, 13, 15}
      last == s.cursor_x = cols(s)
  IN
  [s EXCEPT
    !.ol = IF up THEN @ + 1 ELSE IF down THEN @ - 1 ELSE @,
    !.cursor_x = IF last THEN 1 ELSE @ + 1,
    !.cursor_y = IF last THEN @ + 1 ELSE @,
    !.pc = IF last THEN "row" ELSE "scan"]

\* Mutant of levels: a counter of magnitude 5 does not lower its level.
levels_without_5(s) ==
  LET v == s.contours[s.cursor_y][s.cursor_x]
      up == abs(v) \in {2, 4, 10, 12}
      down == abs(v) \in {7, 13, 15}
      last == s.cursor_x = cols(s)
  IN
  [s EXCEPT
    !.ol = IF v > 0 THEN (IF up THEN @ + 1 ELSE IF down THEN @ - 1 ELSE @)
           ELSE @,
    !.hl = IF v > 0 THEN @
           ELSE (IF up THEN @ + 1 ELSE IF down THEN @ - 1 ELSE @),
    !.cursor_x = IF last THEN 1 ELSE @ + 1,
    !.cursor_y = IF last THEN @ + 1 ELSE @,
    !.pc = IF last THEN "row" ELSE "scan"]

\* match contours[cursor_y][cursor_x].abs() { ... }, then the loop heads.
levels(s) ==
  LET v == s.contours[s.cursor_y][s.cursor_x]
      up == abs(v) \in {2, 4, 10, 12}
      down == abs(v) \in {5, 7, 13, 15}
      last == s.cursor_x = cols(s)
  IN
  [s EXCEPT
    !.ol = IF v > 0 THEN (IF up THEN @ + 1 ELSE IF down THEN @ - 1 ELSE @)
           ELSE @,
    !.hl = IF v > 0 THEN @
           ELSE (IF up THEN @ + 1 ELSE IF down THEN @ - 1 ELSE @),
    !.cursor_x = IF last THEN 1 ELSE @ + 1,
    !.cursor_y = IF last THEN @ + 1 ELSE @,
    !.pc = IF last THEN "row" ELSE "scan"]

finish(s) == [s EXCEPT !.pc = "done"]

----------------------------------------------------------------------------
\* image.rs: the tables, the casts and the pieces of trace_single_l8.

O_VERTEX_NO_BORDER ==
  ZeroBased(<< <<0, 1>>, <<0, 0>>, <<0, 0>>, <<0, 0>>,
               <<1, 0>>, <<0, 0>>, <<1, 1>> >>)

H_VERTEX_NO_BORDER ==
  ZeroBased(<< <<1, 1>>, <<0, 0>>, <<0, 1>>, <<0, 0>>,
               <<0, 0>>, <<0, 0>>, <<1, 0>> >>)

O_VALUE_FOR_UNSIGNED == ZeroBased(<<-1, 0, -2, 0, -4, 0, -8>>)

H_VALUE_FOR_UNSIGNED == ZeroBased(<<4, 0, 8, 0, 1, 0, 2>>)

L8OutlineArgs ==
  [outline |-> TRUE, o |-> ZeroBased(<<2, 3, 4, 5, 6, 7, 0, 1>>), rot |-> 2,
   viv |-> <<7, 1, 0>>, vertex |-> O_VERTEX_NO_BORDER,
   value |-> O_VALUE_FOR_UNSIGNED]

\* Mutant of L8HoleArgs: the value table of the signed grid is passed with
\* the unsigned buffer.
L8HoleArgsSigned ==
  [outline |-> FALSE, o |-> ZeroBased(<<4, 5, 6, 7, 0, 1, 2, 3>>), rot |-> -2,
   viv |-> <<1, 7, 6>>, vertex |-> H_VERTEX_NO_BORDER,
   value |-> H_VALUE_FOR_SIGNED]

L8HoleArgs ==
  [outline |-> FALSE, o |-> ZeroBased(<<4, 5, 6, 7, 0, 1, 2, 3>>), rot |-> -2,
   viv |-> <<1, 7, 6>>, vertex |-> H_VERTEX_NO_BORDER,
   value |-> H_VALUE_FOR_UNSIGNED]

\* u8 as i8
as_i8(p) == IF p >= 128 THEN p - 256 ELSE p

\* i8 as u8
as_u8(v) == v % 256

i8_wrapping_add(a, b) == ((a + b + 128) % 256) - 128

\* buffer[(x, y)][0]
pixel(s, x, y) == s.buffer.pixels[y][x]

max_x(s) == s.buffer.width - 1

max_y(s) == s.buffer.height - 1

l8_neighbors(s) ==
  LET x == s.tracer_x
      y == s.tracer_y
  IN
  ZeroBased(<<
    IF y = 0 THEN 32 ELSE pixel(s, x, y - 1),
    IF x = max_x(s) \/ y = 0 THEN 32 ELSE pixel(s, x + 1, y - 1),
    IF x = max_x(s) THEN 32 ELSE pixel(s, x + 1, y),
    IF x = max_x(s) \/ y = max_y(s) THEN 32 ELSE pixel(s, x + 1, y + 1),
    IF y = max_y(s) THEN 32 ELSE pixel(s, x, y + 1),
    IF x = 0 \/ y = max_y(s) THEN 32 ELSE pixel(s, x - 1, y + 1),
    IF x = 0 THEN 32 ELSE pixel(s, x - 1, y),
    IF x = 0 \/ y = 0 THEN 32 ELSE pixel(s, x - 1, y - 1) >>)

l8_rn(s) ==
  LET n == l8_neighbors(s) IN
  IF s.args.outline
  THEN (IF n[s.o[7]] < 32 /\ n[s.o[0]] < 32 THEN 1
        ELSE IF n[s.o[0]] < 32 THEN 2
        ELSE IF n[s.o[1]] < 32 /\ n[s.o[2]] < 32 THEN 3
        ELSE 0)
  ELSE (IF n[s.o[1]] > 32 /\ n[s.o[0]] > 32 THEN 1
        ELSE IF n[s.o[0]] > 32 THEN 2
        ELSE IF n[s.o[7]] > 32 /\ n[s.o[6]] > 32 THEN 3
        ELSE 0)

\* buffer.put_pixel(x, y, Luma([(buffer[(x, y)][0] as i8)
\*                              .wrapping_add(value[o[0]]) as u8]))
l8_stamp(s) ==
  [s EXCEPT !.buffer.pixels[s.tracer_y][s.tracer_x] =
    as_u8(i8_wrapping_add(as_i8(@), s.args.value[s.o[0]]))]

\* Entry of trace_single_l8: the locals and the M command.
trace_single_l8(s, a) == trace_bits(s, a)

l8_walk_1(s) ==
  loop_end(push_vertex(turn_right(advance(l8_stamp(s), s.args.viv[1]))))

l8_walk_2(s) == loop_end(advance(l8_stamp(s), 0))

l8_walk_3(s) ==
  loop_end(push_vertex(advance(turn_right(
    push_vertex(l8_stamp(turn_left(l8_stamp(s))))), s.args.viv[2])))

l8_walk_0(s) == loop_end(push_vertex(turn_left(l8_stamp(s))))

\* Mutant of l8_close_turn: the closing loop turns without reporting the
\* vertex.
l8_close_turn_silent(s) ==
  [turn_left(l8_stamp(s)) EXCEPT !.vertices_nbr = @ + 1]

l8_close_turn(s) == push_vertex(turn_left(l8_stamp(s)))

l8_close_return(s) == leave(l8_stamp(s))

----------------------------------------------------------------------------
\* single_l8_to_paths.

\* The state at the call: nothing has run.
single_l8_to_paths(buf, l, cp) ==
  [fn |-> "single_l8_to_paths",
   bits |-> [y \in 1..buf.height |->
              [x \in 1..buf.width |->
                IF buf.pixels[y - 1][x - 1] = l THEN 1 ELSE 0]],
   closepaths |-> cp, buffer |-> buf, luma |-> l, contours |-> <<>>,
   paths |-> <<>>, ol |-> 0, hl |-> 0, cursor_x |-> 0, cursor_y |-> 0,
   pc |-> "rewrite", args |-> NoArgs, o |-> NoArgs.o, tracer_x |-> 0,
   tracer_y |-> 0, vertices_nbr |-> 0, calls |-> <<>>]

\* Mutant of l8_rewrite: the else branch is missing.
l8_rewrite_foreground(s) ==
  [s EXCEPT
    !.buffer.pixels =
      [y \in 0..(s.buffer.height - 1) |->
        [x \in 0..(s.buffer.width - 1) |->
          IF s.buffer.pixels[y][x] = s.luma THEN 31 ELSE s.buffer.pixels[y][x]]],
    !.pc = "row"]

\* for p in buffer.pixels_mut() { ... }
l8_rewrite(s) ==
  [s EXCEPT
    !.buffer.pixels =
      [y \in 0..(s.buffer.height - 1) |->
        [x \in 0..(s.buffer.width - 1) |->
          IF s.buffer.pixels[y][x] = s.luma THEN 31 ELSE 33]],
    !.pc = "row"]

\* for cursor_y in 0..height { ol = 0; hl = 0; for cursor_x in 0..width
\* With no column the inner loop has no iteration.
l8_row_start(s) ==
  [s EXCEPT !.ol = 0, !.hl = 0, !.cursor_x = 0,
            !.cursor_y = IF s.buffer.width = 0 THEN @ + 1 ELSE @,
            !.pc = IF s.buffer.width = 0 THEN "row" ELSE "scan"]

l8_outline_start(s) ==
  s.ol = s.hl /\ pixel(s, s.cursor_x, s.cursor_y) = 31

\* Mutant of l8_hole_start: >= for >.
l8_hole_start_ge(s) ==
  ~l8_outline_start(s) /\ s.ol >= s.hl
  /\ pixel(s, s.cursor_x, s.cursor_y) = 33

l8_hole_start(s) ==
  ~l8_outline_start(s) /\ s.ol > s.hl
  /\ pixel(s, s.cursor_x, s.cursor_y) = 33

\* integer_from_luma and the match on it, then the loop heads.
l8_levels(s) ==
  LET integer_from_luma == 32 - as_i8(pixel(s, s.cursor_x, s.cursor_y))
      up == abs(integer_from_luma) \in {2, 4, 10, 12}
      down == abs(integer_from_luma) \in {5, 7, 13, 15}
      last == s.cursor_x = s.buffer.width - 1
  IN
  [s EXCEPT
    !.ol = IF integer_from_luma > 0
           THEN (IF up THEN @ + 1 ELSE IF down THEN @ - 1 ELSE @)
           ELSE @,
    !.hl = IF integer_from_luma > 0 THEN @
           ELSE (IF up THEN @ + 1 ELSE IF down THEN @ - 1 ELSE @),
    !.cursor_x = IF last THEN 0 ELSE @ + 1,
    !.cursor_y = IF last THEN @ + 1 ELSE @,
    !.pc = IF last THEN "row" ELSE "scan"]

----------------------------------------------------------------------------
\* The inputs.

Frame(g) ==
  [y \in 1..(Len(g) + 2) |->
    [x \in 1..(Len(g[1]) + 2) |->
      IF y \in 2..(Len(g) + 1) /\ x \in 2..(Len(g[1]) + 1)
      THEN g[y - 1][x - 1] ELSE 1]]

Grids ==
  UNION {
    UNION { {g, Frame(g)} : g \in [1..r -> [1..c -> {0, 1}]] } :
      <<r, c>> \in {rc \in (1..MaxRows) \X (1..MaxCols) :
                     rc[1] * rc[2] <= MaxCells} }

Init ==
  \E b \in Grids, cp \in BOOLEAN :
    LET t == bits_to_paths(b, cp) IN
    /\ fn = t.fn
    /\ bits = t.bits
    /\ closepaths = t.closepaths
    /\ buffer = t.buffer
    /\ luma = t.luma
    /\ contours = t.contours
    /\ paths = t.paths
    /\ ol = t.ol
    /\ hl = t.hl
    /\ cursor_x = t.cursor_x
    /\ cursor_y = t.cursor_y
    /\ pc = t.pc
    /\ args = t.args
    /\ o = t.o
    /\ tracer_x = t.tracer_x
    /\ tracer_y = t.tracer_y
    /\ vertices_nbr = t.vertices_nbr
    /\ calls = t.calls

----------------------------------------------------------------------------
\* The actions: the guard is the code's branch condition at that position.

in_bits(s, at) == s.fn = "bits_to_paths" /\ s.pc = at

at_row_start(s) == in_bits(s, "row") /\ s.cursor_y <= rows(s)

at_return(s) == in_bits(s, "row") /\ s.cursor_y > rows(s)

at_outline_start(s) == in_bits(s, "scan") /\ outline_start(s)

at_hole_start(s) == in_bits(s, "scan") /\ hole_start(s)

at_levels(s) ==
  \/ in_bits(s, "levels")
  \/ in_bits(s, "scan") /\ ~outline_start(s) /\ ~hole_start(s)

at_walk(s, k) == in_bits(s, "walk") /\ rn(s) = k

at_close_turn(s) == in_bits(s, "close") /\ s.o[0] # s.args.viv[3]

at_close_return(s) == in_bits(s, "close") /\ s.o[0] = s.args.viv[3]

RowStart == at_row_start(State) /\ Apply(row_start(State))

Return == at_return(State) /\ Apply(finish(State))

StartOutline == at_outline_start(State) /\ Apply(trace_bits(State, OutlineArgs))

StartHole == at_hole_start(State) /\ Apply(trace_bits(State, HoleArgs))

Levels == at_levels(State) /\ Apply(levels(State))

SharpTurn == at_walk(State, 1) /\ Apply(walk_1(State))

Straight == at_walk(State, 2) /\ Apply(walk_2(State))

ConvexCorner == at_walk(State, 3) /\ Apply(walk_3(State))

OutwardTurn == at_walk(State, 0) /\ Apply(walk_0(State))

CloseTurn == at_close_turn(State) /\ Apply(close_turn(State))

CloseReturn == at_close_return(State) /\ Apply(close_return(State))

Next ==
  \/ RowStart
  \/ Return
  \/ StartOutline
  \/ StartHole
  \/ Levels
  \/ SharpTurn
  \/ Straight
  \/ ConvexCorner
  \/ OutwardTurn
  \/ CloseTurn
  \/ CloseReturn

Spec == Init /\ [][Next]_vars

----------------------------------------------------------------------------
\* The image backend: inputs and actions.

\* Foreground value and the value of the other pixels: the value of the
\* tests, and values that are the internal codes of the other class.
Lumas == {<<255, 0>>, <<33, 31>>}

Image(g, fg, bg) ==
  [width |-> Len(g[1]), height |-> Len(g),
   pixels |-> [y \in 0..(Len(g) - 1) |->
                [x \in 0..(Len(g[1]) - 1) |->
                  IF g[y + 1][x + 1] = 1 THEN fg ELSE bg]]]

InitL8 ==
  \E g \in Grids, l \in Lumas, cp \in BOOLEAN :
    LET t == single_l8_to_paths(Image(g, l[1], l[2]), l[1], cp) IN
    /\ fn = t.fn
    /\ bits = t.bits
    /\ closepaths = t.closepaths
    /\ buffer = t.buffer
    /\ luma = t.luma
    /\ contours = t.contours
    /\ paths = t.paths
    /\ ol = t.ol
    /\ hl = t.hl
    /\ cursor_x = t.cursor_x
    /\ cursor_y = t.cursor_y
    /\ pc = t.pc
    /\ args = t.args
    /\ o = t.o
    /\ tracer_x = t.tracer_x
    /\ tracer_y = t.tracer_y
    /\ vertices_nbr = t.vertices_nbr
    /\ calls = t.calls

in_l8(s, at) == s.fn = "single_l8_to_paths" /\ s.pc = at

at_l8_rewrite(s) == in_l8(s, "rewrite")

at_l8_row_start(s) == in_l8(s, "row") /\ s.cursor_y < s.buffer.height

at_l8_return(s) == in_l8(s, "row") /\ s.cursor_y >= s.buffer.height

at_l8_outline_start(s) == in_l8(s, "scan") /\ l8_outline_start(s)

at_l8_hole_start(s) == in_l8(s, "scan") /\ l8_hole_start(s)

at_l8_levels(s) ==
  \/ in_l8(s, "levels")
  \/ in_l8(s, "scan") /\ ~l8_outline_start(s) /\ ~l8_hole_start(s)

at_l8_walk(s, k) == in_l8(s, "walk") /\ l8_rn(s) = k

at_l8_close_turn(s) == in_l8(s, "close") /\ s.o[0] # s.args.viv[3]

at_l8_close_return(s) == in_l8(s, "close") /\ s.o[0] = s.args.viv[3]

L8Rewrite == at_l8_rewrite(State) /\ Apply(l8_rewrite(State))

L8RowStart == at_l8_row_start(State) /\ Apply(l8_row_start(State))

L8Return == at_l8_return(State) /\ Apply(finish(State))

L8StartOutline ==
  at_l8_outline_start(State) /\ Apply(trace_single_l8(State, L8OutlineArgs))

L8StartHole ==
  at_l8_hole_start(State) /\ Apply(trace_single_l8(State, L8HoleArgs))

L8Levels == at_l8_levels(State) /\ Apply(l8_levels(State))

L8SharpTurn == at_l8_walk(State, 1) /\ Apply(l8_walk_1(State))

L8Straight == at_l8_walk(State, 2) /\ Apply(l8_walk_2(State))

L8ConvexCorner == at_l8_walk(State, 3) /\ Apply(l8_walk_3(State))

L8OutwardTurn == at_l8_walk(State, 0) /\ Apply(l8_walk_0(State))

L8CloseTurn == at_l8_close_turn(State) /\ Apply(l8_close_turn(State))

L8CloseReturn == at_l8_close_return(State) /\ Apply(l8_close_return(State))

NextL8 ==
  \/ L8Rewrite
  \/ L8RowStart
  \/ L8Return
  \/ L8StartOutline
  \/ L8StartHole
  \/ L8Levels
  \/ L8SharpTurn
  \/ L8Straight
  \/ L8ConvexCorner
  \/ L8OutwardTurn
  \/ L8CloseTurn
  \/ L8CloseReturn

SpecL8 == InitL8 /\ [][NextL8]_vars

\* Both public functions.
SpecBoth == (Init \/ InitL8) /\ [][Next \/ NextL8]_vars

\* The state at the call of one of the functions.
Starts(t) ==
  /\ fn = t.fn
  /\ bits = t.bits
  /\ closepaths = t.closepaths
  /\ buffer = t.buffer
  /\ luma = t.luma
  /\ contours = t.contours
  /\ paths = t.paths
  /\ ol = t.ol
  /\ hl = t.hl
  /\ cursor_x = t.cursor_x
  /\ cursor_y = t.cursor_y
  /\ pc = t.pc
  /\ args = t.args
  /\ o = t.o
  /\ tracer_x = t.tracer_x
  /\ tracer_y = t.tracer_y
  /\ vertices_nbr = t.vertices_nbr
  /\ calls = t.calls

\* The grid of the first doc test of bits_to_paths, 5 rows of 11 columns.
Fixture ==
  << <<0, 1, 1, 1, 0, 0, 1, 1, 1, 1, 1>>,
     <<1, 0, 0, 0, 1, 0, 1, 0, 0, 0, 1>>,
     <<1, 0, 0, 0, 1, 0, 1, 0, 1, 0, 1>>,
     <<1, 0, 0, 0, 1, 0, 1, 0, 0, 0, 1>>,
     <<0, 1, 1, 1, 0, 0, 1, 1, 1, 1, 1>> >>

InitFixture == \E cp \in BOOLEAN : Starts(bits_to_paths(Fixture, cp))

\* bits_to_paths on the grids of the bounds and on the doc test's grid.
SpecFixture == (Init \/ InitFixture) /\ [][Next]_vars

\* Inputs outside the documented ones: vectors of vectors that are not a
\* rectangle of at least one cell, images without a pixel.
MaxVecLen == 2

Vecs == UNION { [1..n -> {0, 1}] : n \in 0..MaxVecLen }

malformed(b) ==
  \/ Len(b) = 0
  \/ \E r \in 1..Len(b) : Len(b[r]) = 0 \/ Len(b[r]) # Len(b[1])

BadGrids ==
  {b \in UNION { [1..n -> Vecs] : n \in 0..MaxVecLen } : malformed(b)}

EmptyImages ==
  {[width |-> w, height |-> h,
    pixels |-> [y \in 0..(h - 1) |-> [x \in 0..(w - 1) |-> 0]]] :
     <<w, h>> \in {wh \in (0..MaxVecLen) \X (0..MaxVecLen) :
                    wh[1] = 0 \/ wh[2] = 0}}

InitBad ==
  \E cp \in BOOLEAN :
    \/ \E b \in BadGrids : Starts(call_bits_to_paths(b, cp))
    \/ \E buf \in EmptyImages : Starts(single_l8_to_paths(buf, 255, cp))

\* Both functions on every input, documented or not.
SpecAny == (Init \/ InitL8 \/ InitBad) /\ [][Next \/ NextL8]_vars

\* Images of any pixel values, the internal codes among them, with any of
\* these values as the foreground value.
MaxPixels == 4

PixelValues == {31, 32, 33, 255}

Images ==
  UNION { {[width |-> wh[1], height |-> wh[2], pixels |-> p] :
            p \in [0..(wh[2] - 1) -> [0..(wh[1] - 1) -> PixelValues]]} :
          wh \in {d \in (1..MaxPixels) \X (1..MaxPixels) :
                   d[1] * d[2] <= MaxPixels} }

InitPixels ==
  \E buf \in Images, l \in PixelValues, cp \in BOOLEAN :
    Starts(single_l8_to_paths(buf, l, cp))

\* single_l8_to_paths on two-valued and on many-valued images.
SpecPixels == (InitL8 \/ InitPixels) /\ [][NextL8]_vars

\* The same steps as a function, and a whole call as their iteration.
Step(s) ==
  CASE at_row_start(s) -> row_start(s)
    [] at_return(s) -> finish(s)
    [] at_outline_start(s) -> trace_bits(s, OutlineArgs)
    [] at_hole_start(s) -> trace_bits(s, HoleArgs)
    [] at_levels(s) -> levels(s)
    [] at_walk(s, 1) -> walk_1(s)
    [] at_walk(s, 2) -> walk_2(s)
    [] at_walk(s, 3) -> walk_3(s)
    [] at_walk(s, 0) -> walk_0(s)
    [] at_close_turn(s) -> close_turn(s)
    [] at_close_return(s) -> close_return(s)
    [] OTHER -> s

RECURSIVE Run(_)
Run(s) == IF s.pc = "done" THEN s ELSE Run(Step(s))

----------------------------------------------------------------------------
\* Reading the output string back: SVG path commands and boundary groups.

Digit == {DigitChar[d] : d \in 0..9}

DigitValue(ch) == CHOOSE d \in 0..9 : DigitChar[d] = ch

\* The index after the digits that start at index i of str.
RECURSIVE NumEnd(_, _)
NumEnd(str, i) ==
  IF i <= Len(str) /\ str[i] \in Digit THEN NumEnd(str, i + 1) ELSE i

\* The number written by str[i..j-1].
RECURSIVE Number(_, _, _)
Number(str, i, j) ==
  IF j <= i THEN 0
  ELSE Number(str, i, j - 1) * 10 + DigitValue(str[j - 1])

Cmd(op, x, y) == [op |-> op, x |-> x, y |-> y]

Malformed == <<Cmd("?", -1, -1)>>

\* The commands of str from index i on; a "?" command where str is not a
\* sequence of "M x y", "H x", "V y" and "Z".
RECURSIVE Parse(_, _)
Parse(str, i) ==
  IF i > Len(str) THEN <<>>
  ELSE IF str[i] = "Z" THEN <<Cmd("Z", -1, -1)>> \o Parse(str, i + 1)
  ELSE IF str[i] \in {"H", "V"} THEN
    LET j == NumEnd(str, i + 1) IN
    IF j = i + 1 THEN Malformed
    ELSE IF str[i] = "H"
      THEN <<Cmd("H", Number(str, i + 1, j), -1)>> \o Parse(str, j)
      ELSE <<Cmd("V", -1, Number(str, i + 1, j))>> \o Parse(str, j)
  ELSE IF str[i] = "M" THEN
    LET j == NumEnd(str, i + 1)
        k == NumEnd(str, j + 1)
    IN
    IF j = i + 1 \/ j > Len(str) \/ str[j] # " " \/ k = j + 1 THEN Malformed
    ELSE <<Cmd("M", Number(str, i + 1, j), Number(str, j + 1, k))>>
           \o Parse(str, k)
  ELSE Malformed

Commands(str) == Parse(str, 1)

\* The index of the first M after index i, or Len + 1.
RECURSIVE NextM(_, _)
NextM(cmds, i) ==
  IF i > Len(cmds) \/ cmds[i].op = "M" THEN i ELSE NextM(cmds, i + 1)

\* The groups: each from one M up to the next M.
RECURSIVE Groups(_)
Groups(cmds) ==
  IF cmds = <<>> THEN <<>>
  ELSE LET n == NextM(cmds, 2) IN
       <<SubSeq(cmds, 1, n - 1)>> \o Groups(SubSeq(cmds, n, Len(cmds)))

\* The H and V commands of a group.
Lines(g) == SelectSeq(g, LAMBDA c : c.op \in {"H", "V"})

\* The vertices of a group: the M point, then one point per H or V.
RECURSIVE VerticesFrom(_, _, _)
VerticesFrom(ls, i, pt) ==
  IF i > Len(ls) THEN <<>>
  ELSE LET q == IF ls[i].op = "H" THEN <<ls[i].x, pt[2]>>
                ELSE <<pt[1], ls[i].y>>
       IN <<q>> \o VerticesFrom(ls, i + 1, q)

Vertices(g) ==
  <<<<g[1].x, g[1].y>>>> \o VerticesFrom(Lines(g), 1, <<g[1].x, g[1].y>>)

\* Twice the signed area of the closed polygon pts (shoelace formula).  With
\* y growing downwards, as in the grid, it is positive for a clockwise one.
RECURSIVE Shoelace(_, _)
Shoelace(pts, i) ==
  IF i > Len(pts) THEN 0
  ELSE LET a == pts[i]
           b == pts[(i % Len(pts)) + 1]
       IN a[1] * b[2] - b[1] * a[2] + Shoelace(pts, i + 1)

Area2(g) == Shoelace(Vertices(g), 1)

Output == Commands(paths)

OutputGroups == Groups(Output)

Width == Len(bits[1])

Height == Len(bits)

----------------------------------------------------------------------------
\* C2: at the end of the scan there is one group per trace_bits call, in call
\* order; every group of an outline call is wound clockwise (positive signed
\* area, y growing downwards) and every group of a hole call is wound
\* counterclockwise (negative signed area).
WindingOf(gs) ==
  /\ Len(gs) = Len(calls)
  /\ \A k \in 1..Len(calls) :
       LET a == Area2(gs[k]) IN IF calls[k][1] THEN a > 0 ELSE a < 0

WindingByKind == pc = "done" => WindingOf(OutputGroups)

\* A finished scan that traced an outline, a hole in it and something more.
WindingCase(gs) ==
  /\ Len(calls) >= 3
  /\ \E k \in 1..Len(calls) : ~calls[k][1] /\ Len(gs[k]) >= 6

WindingWitness == pc = "done" /\ WindingCase(OutputGroups)

\* C3: at every moment every x written by an M or H command is in 0..W and
\* every y written by an M or V command is in 0..H, W x H the caller's grid;
\* so no wrapping_add of a negative vertex offset has wrapped.
InBounds(cmds) ==
  \A i \in 1..Len(cmds) :
    /\ cmds[i].op \in {"M", "H"} => cmds[i].x \in 0..Width
    /\ cmds[i].op \in {"M", "V"} => cmds[i].y \in 0..Height

CoordinatesInBounds == InBounds(Output)

\* A finished scan whose output has both extreme coordinates on both axes:
\* the offset -1 was added to a tracer position on the first column and row,
\* and the last column and row were reached.
Extremes(cmds) ==
  /\ \E i \in 1..Len(cmds) : cmds[i].op = "H" /\ cmds[i].x = 0
  /\ \E i \in 1..Len(cmds) : cmds[i].op = "H" /\ cmds[i].x = Width
  /\ \E i \in 1..Len(cmds) : cmds[i].op = "V" /\ cmds[i].y = Height
  /\ \E i \in 1..Len(cmds) : cmds[i].op = "M" /\ cmds[i].y = 0

CoordinatesWitness == pc = "done" /\ Width >= 2 /\ Extremes(Output)

\* C4: at every moment no H command is directly followed by an H command and
\* no V command by a V command.
Alternating(cmds) ==
  \A i \in 1..(Len(cmds) - 1) :
    cmds[i].op \in {"H", "V"} /\ cmds[i + 1].op \in {"H", "V"}
      => cmds[i].op # cmds[i + 1].op

AxesAlternate == Alternating(Output)

\* A finished scan with a group of at least seven H/V commands, which takes
\* straight steps, sharp turns and convex corners.
LongGroup(gs) == \E k \in 1..Len(gs) : Len(Lines(gs[k])) >= 7

AlternateWitness == pc = "done" /\ LongGroup(OutputGroups)

\* C5: at every moment the output parses as commands "M x y", "H x", "V y"
\* and "Z" with nothing else in it, it is empty or starts with an M, a Z
\* occurs only with closepaths and only as the last command or directly
\* before an M; and whenever no trace is running and closepaths is set, the
\* output ends with Z and every M but the first directly follows a Z.
WellGrouped(cmds) ==
  /\ \A i \in 1..Len(cmds) : cmds[i].op \in {"M", "H", "V", "Z"}
  /\ cmds # <<>> => cmds[1].op = "M"
  /\ \A i \in 1..Len(cmds) :
       cmds[i].op = "Z" =>
         /\ closepaths
         /\ i = Len(cmds) \/ cmds[i + 1].op = "M"
  /\ closepaths /\ pc \notin {"walk", "close"} =>
       /\ cmds # <<>> => cmds[Len(cmds)].op = "Z"
       /\ \A i \in 2..Len(cmds) : cmds[i].op = "M" => cmds[i - 1].op = "Z"

GroupSyntax == WellGrouped(Output)

\* A finished scan with closepaths set and at least three groups.
GroupSyntaxWitness ==
  pc = "done" /\ closepaths /\ Len(paths) >= 30 /\ Len(OutputGroups) >= 3

----------------------------------------------------------------------------
\* Connected regions of the caller's grid.  Cells are <<x, y>> in the
\* coordinates of contours: 1..Width by 1..Height, the border ring around.

Neighbours(p, diagonal) ==
  {<<p[1] + d[1], p[2] + d[2]>> :
     d \in {e \in (-1..1) \X (-1..1) :
              e # <<0, 0>> /\ (diagonal \/ e[1] = 0 \/ e[2] = 0)}}

\* The cells of region reachable from seen through frontier.
RECURSIVE Grow(_, _, _, _)
Grow(seen, frontier, region, diagonal) ==
  LET more == (UNION {Neighbours(p, diagonal) : p \in frontier})
                \cap (region \ seen)
  IN IF more = {} THEN seen
     ELSE Grow(seen \cup more, more, region, diagonal)

Components(region, diagonal) ==
  {Grow({p}, {p}, region, diagonal) : p \in region}

Foreground ==
  {p \in (1..Width) \X (1..Height) : bits[p[2]][p[1]] = 1}

Background ==
  {p \in (1..Width) \X (1..Height) : bits[p[2]][p[1]] # 1}

Ring ==
  {p \in (0..(Width + 1)) \X (0..(Height + 1)) :
     p[1] \in {0, Width + 1} \/ p[2] \in {0, Height + 1}}

\* The background cells joined to the outside of the grid, diagonal steps
\* included: the background that no foreground encloses.
OpenBackground ==
  Grow({<<0, 0>>}, {<<0, 0>>}, Background \cup Ring, TRUE) \ Ring

\* The holes: the 4-connected regions of enclosed background.
Holes == Components(Background \ OpenBackground, FALSE)

MoveCount(cmds) == Len(SelectSeq(cmds, LAMBDA c : c.op = "M"))

\* C1: the returned string has as many M commands as the grid has
\* 4-connected foreground components plus holes.  (A hole: a 4-connected
\* region of background cells that is not joined, even diagonally, to the
\* outside of the grid; the reading under which the diamond of the doc test
\* has no hole.)
MoveCountIsRegionCount ==
  pc = "done" =>
    MoveCount(Output)
      = Cardinality(Components(Foreground, FALSE)) + Cardinality(Holes)

\* C6: the result for a grid with closepaths set is the result for the same
\* grid with closepaths unset with one Z put at the end of every group: the
\* open result has no Z, the closed one is the open one with a Z before
\* every M but the first and a Z at the end, and both calls were made from
\* the same cells, of the same kinds, and leave the same counters.
RECURSIVE CloseGroups(_, _)
CloseGroups(str, i) ==
  IF i > Len(str) THEN (IF str = <<>> THEN <<>> ELSE <<"Z">>)
  ELSE (IF str[i] = "M" /\ i > 1 THEN <<"Z", "M">> ELSE <<str[i]>>)
         \o CloseGroups(str, i + 1)

OnlyZDiffers(open, closed) ==
  /\ \A i \in 1..Len(open.paths) : open.paths[i] # "Z"
  /\ closed.paths = CloseGroups(open.paths, 1)
  /\ closed.contours = open.contours
  /\ closed.calls = open.calls

ClosepathsOnlyAddsZ ==
  pc = "done" =>
    IF closepaths
    THEN OnlyZDiffers(Run(bits_to_paths(bits, FALSE)), State)
    ELSE OnlyZDiffers(State, Run(bits_to_paths(bits, TRUE)))

\* A finished scan with closepaths set that traced outlines and a hole.
ClosepathsWitness ==
  /\ pc = "done"
  /\ closepaths
  /\ \E k \in 1..Len(calls) : ~calls[k][1]
  /\ \E k \in 2..Len(calls) : calls[k][1]

\* C8: for a grid whose cells are all background (an image without a pixel
\* of the foreground value), at every moment neither trace_bits nor
\* trace_single_l8 has been called, no trace is running and the output is
\* empty.
AllBackground == \A y \in 1..Height, x \in 1..Width : bits[y][x] = 0

EmptyGridEmptyOutput ==
  AllBackground =>
    paths = <<>> /\ calls = <<>> /\ pc \notin {"walk", "close", "levels"}

\* single_l8_to_paths has returned for an image of several rows and columns
\* without a pixel of the foreground value.
EmptyGridWitness ==
  /\ fn = "single_l8_to_paths"
  /\ AllBackground /\ pc = "done" /\ Width >= 2 /\ Height >= 2

\* C9: the result of either function for a W x H grid whose cells are all
\* foreground (an image whose pixels all have the foreground value) is
\* "M0 0", "H" W, "V" H, "H0", followed by "Z" exactly with closepaths.
AllForeground == \A y \in 1..Height, x \in 1..Width : bits[y][x] = 1

Rectangle(w, h, close) ==
  <<"M", "0", " ", "0", "H">> \o Display(w) \o <<"V">> \o Display(h)
    \o <<"H", "0">> \o (IF close THEN <<"Z">> ELSE <<>>)

FullGridOneRectangle ==
  AllForeground /\ pc = "done" => paths = Rectangle(Width, Height, closepaths)

\* single_l8_to_paths has returned for an image of one column and several
\* rows, every pixel of the foreground value.
FullGridWitness ==
  /\ fn = "single_l8_to_paths"
  /\ AllForeground /\ pc = "done" /\ Width = 1 /\ Height >= 2

\* C10: in the result, every foreground cell at 0-based (x, y) without a
\* foreground 4-neighbour has its own group "M x y", "H" x+1, "V" y+1,
\* "H" x; and the closed result for the 3 x 3 grid with foreground on the
\* diagonal is "M0 0H1V1H0ZM1 1H2V2H1ZM2 2H3V3H2Z".
Isolated(x, y) ==
  /\ bits[y][x] = 1
  /\ \A q \in Neighbours(<<x, y>>, FALSE) : q \notin Foreground

UnitSquare(g, x, y) ==
  /\ Len(g) = (IF closepaths THEN 5 ELSE 4)
  /\ g[1] = Cmd("M", x, y)
  /\ g[2] = Cmd("H", x + 1, -1)
  /\ g[3] = Cmd("V", -1, y + 1)
  /\ g[4] = Cmd("H", x, -1)

IsolatedHaveGroups(gs) ==
  \A y \in 1..Height, x \in 1..Width :
    Isolated(x, y) => \E k \in 1..Len(gs) : UnitSquare(gs[k], x - 1, y - 1)

Diagonal3 == <<<<1, 0, 0>>, <<0, 1, 0>>, <<0, 0, 1>>>>

Diagonal3Closed ==
  <<"M", "0", " ", "0", "H", "1", "V", "1", "H", "0", "Z",
    "M", "1", " ", "1", "H", "2", "V", "2", "H", "1", "Z",
    "M", "2", " ", "2", "H", "3", "V", "3", "H", "2", "Z">>

IsolatedCellOwnGroup ==
  pc = "done" =>
    /\ IsolatedHaveGroups(OutputGroups)
    /\ bits = Diagonal3 /\ closepaths => paths = Diagonal3Closed

\* C11: for the 5 x 11 grid of the doc test and closepaths false, the result
\* is "M1 0H4V1H1M6 0H11V5H6M0 1H1V4H0M4 1H5V4H4M7 1V4H10V1M8 2H9V3H8M1 4H4V5H1":
\* seven groups, the fifth from a hole call at the first cell of the enclosed
\* 3 x 3 background region, the sixth from an outline call at the pixel inside
\* it.
FixtureResult ==
  <<
    "M", "1", " ", "0", "H", "4", "V", "1", "H", "1", "M", "6", " ", "0",
    "H", "1", "1", "V", "5", "H", "6", "M", "0", " ", "1", "H", "1", "V",
    "4", "H", "0", "M", "4", " ", "1", "H", "5", "V", "4", "H", "4", "M",
    "7", " ", "1", "V", "4", "H", "1", "0", "V", "1", "M", "8", " ", "2",
    "H", "9", "V", "3", "H", "8", "M", "1", " ", "4", "H", "4", "V", "5",
    "H", "1"
  >>

FixtureGroups(gs) ==
  /\ Len(gs) = 7
  /\ Len(calls) = 7
  /\ \A k \in 1..7 : calls[k][1] = (k # 5)
  /\ calls[5] = <<FALSE, 8, 2>>
  /\ gs[5] = <<Cmd("M", 7, 1), Cmd("V", -1, 4), Cmd("H", 10, -1),
               Cmd("V", -1, 1)>>
  /\ calls[6] = <<TRUE, 9, 3>>
  /\ gs[6] = <<Cmd("M", 8, 2), Cmd("H", 9, -1), Cmd("V", -1, 3),
               Cmd("H", 8, -1)>>

FixtureTraced ==
  bits = Fixture /\ ~closepaths /\ pc = "done" =>
    paths = FixtureResult /\ FixtureGroups(OutputGroups)

\* bits_to_paths has returned for the doc test's grid, closepaths false.
FixtureWitness ==
  bits = Fixture /\ ~closepaths /\ pc = "done" /\ Len(calls) = 7

\* C12: for a malformed input (no row, a row without a column, rows of
\* different lengths, an image of width or height zero) the call ends in an
\* outcome InvalidInput of its own, with no tracer called and no output.
MalformedInput ==
  IF fn = "bits_to_paths" THEN malformed(bits)
  ELSE buffer.width = 0 \/ buffer.height = 0

MalformedInputRejected ==
  MalformedInput => pc = "InvalidInput" /\ paths = <<>> /\ calls = <<>>

\* C13: single_l8_to_paths and bits_to_paths on the same classification run
\* in lockstep. Read with a border of zeros, the counter 32 - p for the pixel
\* p, and cursor, tracer and call positions moved by one, the state of
\* single_l8_to_paths after its rewrite is the state of bits_to_paths after
\* its construction, and every later step of single_l8_to_paths is the step
\* of bits_to_paths from the state so read: the strings are equal after
\* every step and at the return.
Bordered(s) ==
  [y \in 0..(s.buffer.height + 1) |->
    [x \in 0..(s.buffer.width + 1) |->
      IF y \in 1..s.buffer.height /\ x \in 1..s.buffer.width
      THEN 32 - as_i8(pixel(s, x - 1, y - 1))
      ELSE 0]]

Tracing(s) == s.pc \in {"walk", "close"}

Twin(s) ==
  [fn |-> "bits_to_paths", bits |-> s.bits, closepaths |-> s.closepaths,
   buffer |-> NoBuffer, luma |-> 0, contours |-> Bordered(s),
   paths |-> s.paths, ol |-> s.ol, hl |-> s.hl,
   cursor_x |-> s.cursor_x + 1, cursor_y |-> s.cursor_y + 1, pc |-> s.pc,
   args |-> IF s.args = L8OutlineArgs THEN OutlineArgs
            ELSE IF s.args = L8HoleArgs THEN HoleArgs
            ELSE NoArgs,
   o |-> s.o,
   tracer_x |-> IF Tracing(s) THEN s.tracer_x + 1 ELSE 0,
   tracer_y |-> IF Tracing(s) THEN s.tracer_y + 1 ELSE 0,
   vertices_nbr |-> s.vertices_nbr,
   calls |-> [k \in 1..Len(s.calls) |->
               <<s.calls[k][1], s.calls[k][2] + 1, s.calls[k][3] + 1>>]]

BackendsInLockstep ==
  [][fn = "single_l8_to_paths" =>
       Twin(State') = IF pc = "rewrite"
                      THEN bits_to_paths(bits, closepaths)
                      ELSE Step(Twin(State))]_vars

\* single_l8_to_paths has returned after a hole trace: pixels of both
\* classes were stamped.
LockstepWitness ==
  /\ fn = "single_l8_to_paths" /\ pc = "done"
  /\ \E k \in 1..Len(calls) : ~calls[k][1]
  /\ \E y \in 0..(buffer.height - 1), x \in 0..(buffer.width - 1) :
       buffer.pixels[y][x] > 33

\* C14: the first step of single_l8_to_paths, before any call of the tracer,
\* writes every pixel: 31 where the pixel equals luma, 33 elsewhere, whatever
\* the values of the pixels and of luma; when the first trace starts the
\* buffer holds these two codes only, as the classification gives them.
Encoded(buf) ==
  \A y \in 0..(buf.height - 1), x \in 0..(buf.width - 1) :
    buf.pixels[y][x] = IF bits[y + 1][x + 1] = 1 THEN 31 ELSE 33

RewriteStep ==
  /\ calls = <<>> /\ paths = <<>>
  /\ calls' = <<>> /\ paths' = <<>>
  /\ buffer'.width = buffer.width /\ buffer'.height = buffer.height
  /\ \A y \in 0..(buffer.height - 1), x \in 0..(buffer.width - 1) :
       buffer'.pixels[y][x] = IF buffer.pixels[y][x] = luma THEN 31 ELSE 33
  /\ Encoded(buffer')

RewriteBeforeTrace ==
  [][/\ pc = "rewrite" => RewriteStep
     /\ calls = <<>> /\ calls' # <<>> => pc # "rewrite" /\ Encoded(buffer)]_vars

\* The rewrite is done, no trace has started, for an image with pixels of
\* both classes whose foreground value is the code 33.
RewriteWitness ==
  /\ fn = "single_l8_to_paths" /\ pc = "row" /\ cursor_y = 0 /\ calls = <<>>
  /\ luma = 33
  /\ \E y \in 0..(buffer.height - 1), x \in 0..(buffer.width - 1) :
       buffer.pixels[y][x] = 31
  /\ \E y \in 0..(buffer.height - 1), x \in 0..(buffer.width - 1) :
       buffer.pixels[y][x] = 33

\* C15: at a cell the scanner calls trace_bits as an outline exactly when
\* ol = hl and the counter is 1, as a hole exactly when ol > hl and the
\* counter is -1, and makes no call otherwise; no call is made anywhere else;
\* a counter that a trace has changed has magnitude 2 or more and keeps it,
\* so a stamped cell never starts a trace.
Started(outline) ==
  /\ pc' = "walk"
  /\ calls' = Append(calls, <<outline, cursor_x, cursor_y>>)
  /\ contours[cursor_y][cursor_x] = new_contours(bits)[cursor_y][cursor_x]

ScanTrigger ==
  LET v == contours[cursor_y][cursor_x] IN
  IF pc = "scan"
  THEN /\ Started(TRUE) <=> (ol = hl /\ v = 1)
       /\ Started(FALSE) <=> (ol > hl /\ v = -1)
       /\ calls' = calls <=> ~(ol = hl /\ v = 1) /\ ~(ol > hl /\ v = -1)
  ELSE calls' = calls

StampedForGood ==
  \A y \in 0..(Height + 1), x \in 0..(Width + 1) :
    contours'[y][x] # contours[y][x] \/ abs(contours[y][x]) >= 2
      => abs(contours'[y][x]) >= 2

TriggersExact == [][ScanTrigger /\ StampedForGood]_vars

\* A hole trace has just been started by the scanner after another trace.
TriggerWitness ==
  /\ fn = "bits_to_paths" /\ pc = "walk" /\ ~args.outline
  /\ tracer_x = cursor_x /\ tracer_y = cursor_y /\ vertices_nbr = 1
  /\ calls[Len(calls)] = <<FALSE, cursor_x, cursor_y>>
  /\ Len(calls) >= 2 /\ ol > hl

\* C16, as stated: every trace, of a hole as of an outline, starts with the
\* orientation east, o[0] naming the neighbour (1, 0).
East == <<1, 0>>

South == <<0, 1>>

HolesStartEast == [][calls' # calls => MN[o'[0]] = East]_vars

\* C16, amended: every outline trace starts with the orientation east and
\* every hole trace with the orientation south, the quarter turn clockwise
\* from east.
StartOrientation ==
  [][calls' # calls =>
       MN[o'[0]] = IF calls'[Len(calls')][1] THEN East ELSE South]_vars

\* A hole trace has just been started, the tracer facing south.
StartOrientationWitness ==
  /\ pc = "walk" /\ ~args.outline /\ vertices_nbr = 1
  /\ tracer_x = cursor_x /\ tracer_y = cursor_y
  /\ o = HoleArgs.o /\ MN[o[0]] = South

\* C17: the step that ends the visit of a cell, after the trace if there
\* was one, changes the levels by the cell's counter v alone (32 - p for the
\* pixel p): for |v| in {2, 4, 10, 12} ol grows by one when v > 0 and hl when
\* v < 0, for |v| in {5, 7, 13, 15} ol shrinks by one when v > 0 and hl when
\* v < 0, and for every other v both are unchanged; the step that starts a
\* row sets both to 0; no other step changes them.
Counter ==
  IF fn = "bits_to_paths" THEN contours[cursor_y][cursor_x]
  ELSE 32 - as_i8(buffer.pixels[cursor_y][cursor_x])

Delta(v) ==
  IF abs(v) \in {2, 4, 10, 12} THEN 1
  ELSE IF abs(v) \in {5, 7, 13, 15} THEN -1
  ELSE 0

EndsVisit == pc = "levels" \/ (pc = "scan" /\ calls' = calls)

LevelStep ==
  IF EndsVisit
  THEN /\ ol' = ol + (IF Counter > 0 THEN Delta(Counter) ELSE 0)
       /\ hl' = hl + (IF Counter < 0 THEN Delta(Counter) ELSE 0)
  ELSE IF pc = "row" /\ pc' # "done"
  THEN ol' = 0 /\ hl' = 0
  ELSE ol' = ol /\ hl' = hl

LevelsFollowCounter == [][LevelStep]_vars

\* In single_l8_to_paths the visit of a stamped hole cell has just ended
\* with a decrement of hl, which is 0 again inside the outline.
LevelsWitness ==
  /\ fn = "single_l8_to_paths" /\ pc = "scan" /\ cursor_x >= 1
  /\ LET v == 32 - as_i8(buffer.pixels[cursor_y][cursor_x - 1]) IN
       v < 0 /\ Delta(v) = -1
  /\ hl = 0 /\ ol = 1

\* C18: in every state of bits_to_paths ol and hl are at least 0: no
\* decrement is executed on a level that is 0.
LevelsNonNegative == ol >= 0 /\ hl >= 0

\* The visit of a cell has just ended with a decrement that brought its
\* level to 0: ol after a cell of positive counter, hl after a negative one.
LevelsNonNegativeWitness ==
  /\ fn = "bits_to_paths" /\ pc = "scan" /\ cursor_x >= 2
  /\ LET v == contours[cursor_y][cursor_x - 1] IN
       /\ abs(v) \in {5, 7, 13, 15}
       /\ v < 0
       /\ hl = 0
  /\ ol = 1

\* C19, as stated: at every walking step the outcome rn is the same
\* whatever the other neighbours are, once the front-left, front and
\* front-right neighbours o[7], o[0], o[1] are given.
Flip(v, outline) ==
  IF outline THEN (IF v > 0 THEN -1 ELSE 1) ELSE (IF v < 0 THEN 1 ELSE -1)

\* The state with the neighbours of the directions K on the other side of
\* the test.
Altered(s, K) ==
  LET at == {<<s.tracer_x + MN[k][1], s.tracer_y + MN[k][2]>> : k \in K} IN
  [s EXCEPT !.contours =
    [y \in DOMAIN @ |->
      [x \in DOMAIN @[y] |->
        IF <<x, y>> \in at THEN Flip(@[y][x], s.args.outline)
        ELSE @[y][x]]]]

DependsOnly(s, looked) ==
  \A K \in SUBSET ((0..7) \ looked) : rn(Altered(s, K)) = rn(s)

FrontThree(s) == {s.o[7], s.o[0], s.o[1]}

OutcomeFromFrontThree ==
  fn = "bits_to_paths" /\ pc = "walk" => DependsOnly(State, FrontThree(State))

\* C19, amended: the outcome depends on at most 4 of the 8 neighbours, the
\* front-left, front and front-right ones and the one on the side of the
\* traced region: o[2], to the right, for an outline, o[6], to the left, for
\* a hole.
FrontAndSide(s) ==
  FrontThree(s) \cup {IF s.args.outline THEN s.o[2] ELSE s.o[6]}

OutcomeFromFrontAndSide ==
  fn = "bits_to_paths" /\ pc = "walk" => DependsOnly(State, FrontAndSide(State))

\* An outline walker with its front outside and its front-right inside: the
\* outcome is 3 or 0 with the right neighbour.
OutcomeWitness ==
  /\ fn = "bits_to_paths" /\ pc = "walk" /\ args.outline
  /\ neighbors(State)[o[0]] <= 0 /\ neighbors(State)[o[1]] > 0
  /\ rn(State) = 3
  /\ rn(Altered(State, {o[2]})) = 0

\* C20: a straight step, taken when the front neighbour o[0] is inside and
\* the neighbour tested before it (front-left o[7] for an outline, its mirror
\* o[1] for a hole) is not, adds value[o[0]] once to the counter of the
\* tracer's cell and to no other, moves the tracer by MN[o[0]], one cell
\* along one axis, and leaves o, vertices_nbr and paths as they are.
Inside(v) == IF args.outline THEN v > 0 ELSE v < 0

IsStraight ==
  LET n == neighbors(State) IN
  /\ pc = "walk"
  /\ Inside(n[o[0]])
  /\ ~Inside(n[IF args.outline THEN o[7] ELSE o[1]])

StraightEffect ==
  /\ contours' = [contours EXCEPT ![tracer_y][tracer_x] = @ + args.value[o[0]]]
  /\ args.value[o[0]] # 0
  /\ tracer_x' = tracer_x + MN[o[0]][1]
  /\ tracer_y' = tracer_y + MN[o[0]][2]
  /\ abs(MN[o[0]][1]) + abs(MN[o[0]][2]) = 1
  /\ o' = o
  /\ vertices_nbr' = vertices_nbr
  /\ paths' = paths

Appended == SubSeq(paths', Len(paths) + 1, Len(paths'))

QuarterOn == IF args.outline THEN o[2] ELSE o[6]

ConvexEffect ==
  /\ contours' = [contours EXCEPT ![tracer_y][tracer_x] =
                    @ + args.value[o[0]] + args.value[QuarterOn]]
  /\ args.value[o[0]] # 0 /\ args.value[QuarterOn] # 0
  /\ args.value[o[0]] # args.value[QuarterOn]
  /\ SubSeq(paths', 1, Len(paths)) = paths
  /\ LET new == Commands(Appended) IN
       /\ Len(new) = 2
       /\ {new[1].op, new[2].op} = {"H", "V"}
  /\ vertices_nbr' = vertices_nbr + 2
  /\ abs(tracer_x' - tracer_x) = 1 /\ abs(tracer_y' - tracer_y) = 1
  /\ o' = o

ConvexStepFrame ==
  [][fn = "bits_to_paths" /\ pc = "walk" /\ rn(State) = 3 => ConvexEffect]_vars

\* An outline trace has begun with a convex-corner step: the start cell
\* carries the deltas of east and south and the tracer is on the diagonal.
ConvexWitness ==
  /\ fn = "bits_to_paths" /\ pc = "walk" /\ args.outline
  /\ vertices_nbr = 3
  /\ tracer_x = cursor_x + 1 /\ tracer_y = cursor_y + 1
  /\ contours[cursor_y][cursor_x] = 1 + 2 + 4
  /\ o = OutlineArgs.o

\* C22: every call of bits_to_paths returns, so every trace it starts ends.
\* The walking loop is left only with the tracer on the start cell and more
\* than 2 vertices, and is not left with the tracer on the start cell and at
\* most 2 vertices. In every state but the returned one a step can be taken,
\* and every step raises a measure that is bounded for the grid: the scan
\* position, then the position inside the visit of a cell, then the sum of
\* the magnitudes of the counters, which every step of a trace raises.
WalkExit ==
  pc = "walk" =>
    (pc' = "close" <=>
       tracer_x' = cursor_x /\ tracer_y' = cursor_y /\ vertices_nbr' > 2)

RECURSIVE Magnitudes(_, _, _)
Magnitudes(grid, y, x) ==
  IF y > Height THEN 0
  ELSE IF x > Width THEN Magnitudes(grid, y + 1, 1)
  ELSE abs(grid[y][x]) + Magnitudes(grid, y, x + 1)

MaxMagnitudes == 16 * Height * Width

Phase(at) ==
  CASE at = "row" -> 0
    [] at = "scan" -> 1
    [] at \in {"walk", "close"} -> 2
    [] at = "levels" -> 3
    [] at = "done" -> 4

Measure(s) ==
  (4 * (s.cursor_y * (Width + 1) + s.cursor_x) + Phase(s.pc))
     * (MaxMagnitudes + 1)
  + Magnitudes(s.contours, 1, 1)

MaxMeasure ==
  (4 * ((Height + 1) * (Width + 1) + Width) + 4) * (MaxMagnitudes + 1)
  + MaxMagnitudes

CanStep(s) ==
  \/ at_row_start(s) \/ at_return(s) \/ at_outline_start(s)
  \/ at_hole_start(s) \/ at_levels(s)
  \/ \E k \in 0..3 : at_walk(s, k)
  \/ at_close_turn(s) \/ at_close_return(s)

Progress ==
  /\ CanStep(State)
  /\ pc' = "done" \/ CanStep(State')
  /\ Measure(State) < Measure(State')
  /\ Magnitudes(contours', 1, 1) <= MaxMagnitudes
  /\ Measure(State') <= MaxMeasure
  /\ pc \in {"walk", "close"} =>
       Magnitudes(contours, 1, 1) < Magnitudes(contours', 1, 1)

TracesTerminate == [][WalkExit /\ Progress]_vars

\* A walk goes on with the tracer on the start cell and 2 vertices: the
\* first step of the trace was an outward turn.
TerminateWitness ==
  /\ fn = "bits_to_paths" /\ pc = "walk"
  /\ tracer_x = cursor_x /\ tracer_y = cursor_y /\ vertices_nbr = 2

\* C23: the closing loop starts, and stays, with the tracer on the start
\* cell. Each iteration adds value[o[0]] once to that cell; an iteration
\* ends the trace exactly when o[0] is the terminal orientation of the kind,
\* 0 for an outline and 6 for a hole; any other iteration turns o by a
\* quarter, one quarter nearer to the terminal orientation, and appends one
\* command; at most 3 quarter turns remain at any moment of the loop.
Terminal == IF args.outline THEN 0 ELSE 6

\* The quarter turns from orientation d to the terminal one: an outline
\* turns from d to d + 2, a hole from d to d - 2, modulo 8.
QuartersLeft(d) ==
  IF args.outline THEN ((Terminal - d) % 8) \div 2
  ELSE ((d - Terminal) % 8) \div 2

ClosingStep ==
  /\ tracer_x = cursor_x /\ tracer_y = cursor_y
  /\ contours' = [contours EXCEPT ![tracer_y][tracer_x] = @ + args.value[o[0]]]
  /\ args.value[o[0]] # 0
  /\ QuartersLeft(o[0]) <= 3
  /\ pc' = "levels" <=> o[0] = Terminal
  /\ pc' = "levels" \/ pc' = "close"
  /\ pc' = "close" =>
       /\ tracer_x' = tracer_x /\ tracer_y' = tracer_y
       /\ QuartersLeft(o'[0]) = QuartersLeft(o[0]) - 1
       /\ SubSeq(paths', 1, Len(paths)) = paths
       /\ Len(Commands(Appended)) = 1
       /\ vertices_nbr' = vertices_nbr + 1
  /\ pc' = "levels" =>
       paths' = IF closepaths THEN paths \o <<"Z">> ELSE paths

ClosingPhase ==
  [][fn = "bits_to_paths" =>
       /\ pc' = "close" => tracer_x' = cursor_x' /\ tracer_y' = cursor_y'
       /\ pc = "close" => ClosingStep]_vars

\* The closing loop of a hole is on the start cell with one quarter turn
\* left to make.
ClosingWitness ==
  /\ fn = "bits_to_paths" /\ pc = "close" /\ ~args.outline
  /\ tracer_x = cursor_x /\ tracer_y = cursor_y
  /\ QuartersLeft(o[0]) = 1
  /\ vertices_nbr >= 3

----------------------------------------------------------------------------
\* C24: the output only grows by appending: across every step the old output
\* is a prefix of the new one; at every moment there is one M command per
\* call of the tracer, in call order, carrying the 0-based column and row of
\* the cell the scanner stood on at the call; and those cells are strictly
\* increasing in row-major (y, x) order.
Moves(cmds) == SelectSeq(cmds, LAMBDA c : c.op = "M")

\* The cursor of the bordered grid is one more than the caller's index.
Base == IF fn = "bits_to_paths" THEN 1 ELSE 0

MovesAtStarts(ms) ==
  /\ Len(ms) = Len(calls)
  /\ \A k \in 1..Len(calls) :
       /\ ms[k].x = calls[k][2] - Base
       /\ ms[k].y = calls[k][3] - Base

RowMajor ==
  \A k \in 1..(Len(calls) - 1) :
    \/ calls[k][3] < calls[k + 1][3]
    \/ calls[k][3] = calls[k + 1][3] /\ calls[k][2] < calls[k + 1][2]

Grows ==
  /\ Len(paths') >= Len(paths)
  /\ SubSeq(paths', 1, Len(paths)) = paths

OutputAppendOnly ==
  /\ [][Grows]_vars
  /\ [](MovesAtStarts(Moves(Output)) /\ RowMajor)

\* A finished scan with closepaths whose third group starts in a later row
\* than its first and which traced a hole.
AppendOnlyWitness ==
  /\ pc = "done" /\ closepaths
  /\ Len(calls) >= 3
  /\ calls[3][3] > calls[1][3]
  /\ \E k \in 1..Len(calls) : ~calls[k][1]

----------------------------------------------------------------------------
\* C25: every step that changes the counter of a cell adds to its magnitude
\* a sum of deltas of {1, 2, 4, 8} none of which the cell has received
\* before, and leaves its sign as it was; so at every moment of a scan the
\* counter of a foreground cell is in 1..16 and that of a background cell
\* in -16..-1, within i8, and after the rewrite the pixel of a foreground
\* cell is in 16..31 and that of a background cell in 33..48.
CountersOf(s) == IF s.fn = "bits_to_paths" THEN s.contours ELSE Bordered(s)

\* The deltas of {1, 2, 4, 8} whose sum is n, as exponents.
DeltasIn(n) == {k \in 0..3 : (n \div (2 ^ k)) % 2 = 1}

NewDeltas(old, new) ==
  new # old =>
    /\ (old > 0) = (new > 0) /\ (old < 0) = (new < 0)
    /\ abs(new) > abs(old)
    /\ abs(new) - abs(old) <= 15
    /\ DeltasIn(abs(new) - abs(old)) \cap DeltasIn(abs(old) - 1) = {}

DeltasOnce ==
  pc # "rewrite" =>
    LET was == CountersOf(State)
        is == CountersOf(State')
    IN \A y \in 1..Height, x \in 1..Width : NewDeltas(was[y][x], is[y][x])

CountersInRange ==
  pc # "rewrite" =>
    \A y \in 1..Height, x \in 1..Width :
      LET v == CountersOf(State)[y][x] IN
      /\ v \in (IF bits[y][x] = 1 THEN 1..16 ELSE (-16)..(-1))
      /\ fn = "single_l8_to_paths" =>
           buffer.pixels[y - 1][x - 1]
             \in (IF bits[y][x] = 1 THEN 16..31 ELSE 33..48)

DeltasAtMostOnce ==
  /\ [][DeltasOnce]_vars
  /\ []CountersInRange

\* A finished scan of an image in which a background pixel has received all
\* four deltas of a hole and a foreground pixel those of two sides.
DeltasWitness ==
  /\ fn = "single_l8_to_paths" /\ pc = "done"
  /\ \E y \in 1..Height, x \in 1..Width : buffer.pixels[y - 1][x - 1] = 48
  /\ \E y \in 1..Height, x \in 1..Width :
       31 - buffer.pixels[y - 1][x - 1] \in {3, 6, 9, 12}

----------------------------------------------------------------------------
\* C26: while a trace runs the tracer is on a cell of the addressed region,
\* columns 1..cols and rows 1..rows of the bordered grid or 0..max_x and
\* 0..max_y of the image, so that each of its eight neighbours is a cell of
\* the bordered grid or is answered by the clamped lookup; every cell whose
\* counter a step changes is the cell the tracer stood on, a foreground cell
\* of the input in an outline trace and a background cell in a hole trace;
\* and the border cells of the bordered grid hold 0 at every moment.
TracerInRegion ==
  Tracing(State) =>
    /\ tracer_x - Base \in 0..(Width - 1)
    /\ tracer_y - Base \in 0..(Height - 1)

BorderIsZero ==
  fn = "bits_to_paths" =>
    /\ DOMAIN contours = 0..(Height + 1)
    /\ \A y \in 0..(Height + 1) :
         /\ DOMAIN contours[y] = 0..(Width + 1)
         /\ \A x \in 0..(Width + 1) :
              (y \in {0, Height + 1} \/ x \in {0, Width + 1})
                => contours[y][x] = 0

StampsOwnKind ==
  pc # "rewrite" =>
    LET was == CountersOf(State)
        is == CountersOf(State')
    IN \A y \in 1..Height, x \in 1..Width :
         was[y][x] # is[y][x] =>
           /\ Tracing(State)
           /\ x = tracer_x + 1 - Base /\ y = tracer_y + 1 - Base
           /\ bits[y][x] = (IF args.outline THEN 1 ELSE 0)

TracerStaysInside ==
  /\ [](TracerInRegion /\ BorderIsZero)
  /\ [][StampsOwnKind]_vars

\* A hole trace of bits_to_paths has stamped a background cell and stands on
\* another one, in the last column but one of the grid.
InsideWitness ==
  /\ fn = "bits_to_paths" /\ pc = "walk" /\ ~args.outline
  /\ <<tracer_x, tracer_y>> # <<cursor_x, cursor_y>>
  /\ tracer_x = Width - 1
  /\ contours[cursor_y][cursor_x] < -1
  /\ bits[tracer_y][tracer_x] = 0

----------------------------------------------------------------------------
\* C27: at the end of the scan of every grid every segment of every emitted
\* polygon, the closing one included, is horizontal or vertical, and filling
\* the polygons with the even-odd rule gives back the input: the cell of
\* column x and row y is foreground iff the ray from its centre to the east
\* crosses an odd number of polygon segments.  An edge shared by an outline
\* and a hole therefore has one coordinate in both.
Min(a, b) == IF a < b THEN a ELSE b

Max(a, b) == IF a < b THEN b ELSE a

\* The segments of the closed polygon pts.
Segments(pts) ==
  [i \in 1..Len(pts) |-> <<pts[i], pts[(i % Len(pts)) + 1]>>]

Rectilinear(sg) == sg[1][1] = sg[2][1] \/ sg[1][2] = sg[2][2]

\* The segment is crossed by the ray from (x + 1/2, y + 1/2) to the east.
Crosses(sg, x, y) ==
  /\ sg[1][1] = sg[2][1]
  /\ sg[1][1] > x
  /\ Min(sg[1][2], sg[2][2]) <= y
  /\ y < Max(sg[1][2], sg[2][2])

Crossings(polys, x, y) ==
  Cardinality({ki \in UNION {{k} \X (1..Len(polys[k])) : k \in 1..Len(polys)} :
                Crosses(polys[ki[1]][ki[2]], x, y)})

EvenOddFill(polys) ==
  [y \in 1..Height |->
    [x \in 1..Width |-> Crossings(polys, x - 1, y - 1) % 2]]

Polygons(gs) == [k \in 1..Len(gs) |-> Segments(Vertices(gs[k]))]

RoundTripOf(polys) ==
  /\ \A k \in 1..Len(polys) :
       \A i \in 1..Len(polys[k]) : Rectilinear(polys[k][i])
  /\ EvenOddFill(polys) = bits

RoundTrip == pc = "done" => RoundTripOf(Polygons(OutputGroups))

\* A finished scan that traced a hole and, after it, an outline inside it.
RoundTripWitness ==
  /\ pc = "done"
  /\ \E k \in 1..Len(calls) :
       /\ ~calls[k][1]
       /\ \E j \in (k + 1)..Len(calls) :
            /\ calls[j][1]
            /\ bits[calls[k][3]][calls[k][2]] = 0
            /\ bits[calls[j][3]][calls[j][2]] = 1
            /\ calls[j][3] > calls[k][3] /\ calls[j][2] > calls[k][2]
            /\ calls[j][2] < Width /\ calls[j][3] < Height

----------------------------------------------------------------------------
\* C28: in every state of the scan of every grid hl <= ol, so also after
\* every scanned cell; and when the last cell of a row has been scanned, and
\* at the return, ol = 0 and hl = 0: the increments of a row have been
\* undone by decrements in the same row.
LevelsBalanced ==
  fn = "bits_to_paths" =>
    /\ hl <= ol
    /\ pc \in {"row", "done"} => ol = 0 /\ hl = 0

\* The last cell of a row has been scanned, and the row crossed an outline
\* and a hole in it: it has a cell whose counter lowered ol and one whose
\* counter lowered hl.
LevelsBalancedWitness ==
  /\ fn = "bits_to_paths" /\ pc = "row" /\ cursor_y >= 2
  /\ \E x \in 1..Width :
       LET v == contours[cursor_y - 1][x] IN v < 0 /\ Delta(v) = -1
  /\ \E x \in 1..Width :
       LET v == contours[cursor_y - 1][x] IN v > 0 /\ Delta(v) = -1

----------------------------------------------------------------------------
\* C29: at the end of the scan, in both backends, the command after the M of
\* every group is H when the group comes from an outline call and V when it
\* comes from a hole call; the group has an odd number, at least 3, of H and
\* V commands; and its last H or V command is an H with the x of the M for
\* an outline and a V with the y of the M for a hole, so that the closing
\* segment back to the M point runs along one axis.
GroupShape(g, outline) ==
  LET ls == Lines(g)
      n == Len(ls)
      axis == IF outline THEN "H" ELSE "V"
  IN
  /\ Len(g) >= 2 /\ g[2].op = axis
  /\ n >= 3 /\ n % 2 = 1
  /\ ls[n].op = axis
  /\ IF outline THEN ls[n].x = g[1].x ELSE ls[n].y = g[1].y

GroupShapes(gs) ==
  /\ Len(gs) = Len(calls)
  /\ \A k \in 1..Len(gs) : GroupShape(gs[k], calls[k][1])

GroupsCloseOnAxis == pc = "done" => GroupShapes(OutputGroups)

\* A finished scan of an image that traced an outline and, in it, a hole of
\* more than five commands.
LongGroups(gs) ==
  /\ Len(gs) >= 2
  /\ calls[1][1] /\ Len(Lines(gs[1])) >= 3
  /\ \E k \in 2..Len(gs) : ~calls[k][1] /\ Len(Lines(gs[k])) >= 7

GroupsCloseWitness ==
  fn = "single_l8_to_paths" /\ pc = "done" /\ LongGroups(OutputGroups)

----------------------------------------------------------------------------
\* lib.rs: the second copy of the image tracer.  It is the text of image.rs
\* but for the way the eight neighbours are read: sixteen cases on the size
\* of the buffer and the position of the tracer.

\* Mutant of lib_neighbors: the top left corner does not read its south-east
\* neighbour.
lib_neighbors_corner_blind(s) ==
  LET x == s.tracer_x
      y == s.tracer_y
  IN
  IF max_x(s) = 0 /\ max_y(s) = 0 THEN
    ZeroBased(<<32, 32, 32, 32,
                32, 32, 32, 32>>)
  ELSE IF max_x(s) = 0 /\ y = 0 THEN
    ZeroBased(<<32, 32, 32, 32,
                pixel(s, x, y + 1), 32, 32, 32>>)
  ELSE IF max_x(s) = 0 /\ y = max_y(s) THEN
    ZeroBased(<<pixel(s, x, y - 1), 32, 32, 32,
                32, 32, 32, 32>>)
  ELSE IF max_x(s) = 0 THEN
    ZeroBased(<<pixel(s, x, y - 1), 32, 32, 32,
                pixel(s, x, y + 1), 32, 32, 32>>)
  ELSE IF max_y(s) = 0 /\ x = 0 THEN
    ZeroBased(<<32, 32, pixel(s, x + 1, y), 32,
                32, 32, 32, 32>>)
  ELSE IF max_y(s) = 0 /\ x = max_x(s) THEN
    ZeroBased(<<32, 32, 32, 32,
                32, 32, pixel(s, x - 1, y), 32>>)
  ELSE IF max_y(s) = 0 THEN
    ZeroBased(<<32, 32, pixel(s, x + 1, y), 32,
                32, 32, pixel(s, x - 1, y), 32>>)
  ELSE IF x = 0 /\ y = 0 THEN
    ZeroBased(<<32, 32, pixel(s, x + 1, y), 32,
                pixel(s, x, y + 1), 32, 32, 32>>)
  ELSE IF x = max_x(s) /\ y = 0 THEN
    ZeroBased(<<32, 32, 32, 32,
                pixel(s, x, y + 1), pixel(s, x - 1, y + 1), pixel(s, x - 1, y), 32>>)
  ELSE IF x = 0 /\ y = max_y(s) THEN
    ZeroBased(<<pixel(s, x, y - 1), pixel(s, x + 1, y - 1), pixel(s, x + 1, y), 32,
                32, 32, 32, 32>>)
  ELSE IF x = max_x(s) /\ y = max_y(s) THEN
    ZeroBased(<<pixel(s, x, y - 1), 32, 32, 32,
                32, 32, pixel(s, x - 1, y), pixel(s, x - 1, y - 1)>>)
  ELSE IF x = 0 THEN
    ZeroBased(<<pixel(s, x, y - 1), pixel(s, x + 1, y - 1), pixel(s, x + 1, y), pixel(s, x + 1, y + 1),
                pixel(s, x, y + 1), 32, 32, 32>>)
  ELSE IF x = max_x(s) THEN
    ZeroBased(<<pixel(s, x, y - 1), 32, 32, 32,
                pixel(s, x, y + 1), pixel(s, x - 1, y + 1), pixel(s, x - 1, y), pixel(s, x - 1, y - 1)>>)
  ELSE IF y = 0 THEN
    ZeroBased(<<32, 32, pixel(s, x + 1, y), pixel(s, x + 1, y + 1),
                pixel(s, x, y + 1), pixel(s, x - 1, y + 1), pixel(s, x - 1, y), 32>>)
  ELSE IF y = max_y(s) THEN
    ZeroBased(<<pixel(s, x, y - 1), pixel(s, x + 1, y - 1), pixel(s, x + 1, y), 32,
                32, 32, pixel(s, x - 1, y), pixel(s, x - 1, y - 1)>>)
  ELSE
    ZeroBased(<<pixel(s, x, y - 1), pixel(s, x + 1, y - 1), pixel(s, x + 1, y), pixel(s, x + 1, y + 1),
                pixel(s, x, y + 1), pixel(s, x - 1, y + 1), pixel(s, x - 1, y), pixel(s, x - 1, y - 1)>>)

lib_neighbors(s) ==
  LET x == s.tracer_x
      y == s.tracer_y
  IN
  IF max_x(s) = 0 /\ max_y(s) = 0 THEN
    ZeroBased(<<32, 32, 32, 32,
                32, 32, 32, 32>>)
  ELSE IF max_x(s) = 0 /\ y = 0 THEN
    ZeroBased(<<32, 32, 32, 32,
                pixel(s, x, y + 1), 32, 32, 32>>)
  ELSE IF max_x(s) = 0 /\ y = max_y(s) THEN
    ZeroBased(<<pixel(s, x, y - 1), 32, 32, 32,
                32, 32, 32, 32>>)
  ELSE IF max_x(s) = 0 THEN
    ZeroBased(<<pixel(s, x, y - 1), 32, 32, 32,
                pixel(s, x, y + 1), 32, 32, 32>>)
  ELSE IF max_y(s) = 0 /\ x = 0 THEN
    ZeroBased(<<32, 32, pixel(s, x + 1, y), 32,
                32, 32, 32, 32>>)
  ELSE IF max_y(s) = 0 /\ x = max_x(s) THEN
    ZeroBased(<<32, 32, 32, 32,
                32, 32, pixel(s, x - 1, y), 32>>)
  ELSE IF max_y(s) = 0 THEN
    ZeroBased(<<32, 32, pixel(s, x + 1, y), 32,
                32, 32, pixel(s, x - 1, y), 32>>)
  ELSE IF x = 0 /\ y = 0 THEN
    ZeroBased(<<32, 32, pixel(s, x + 1, y), pixel(s, x + 1, y + 1),
                pixel(s, x, y + 1), 32, 32, 32>>)
  ELSE IF x = max_x(s) /\ y = 0 THEN
    ZeroBased(<<32, 32, 32, 32,
                pixel(s, x, y + 1), pixel(s, x - 1, y + 1), pixel(s, x - 1, y), 32>>)
  ELSE IF x = 0 /\ y = max_y(s) THEN
    ZeroBased(<<pixel(s, x, y - 1), pixel(s, x + 1, y - 1), pixel(s, x + 1, y), 32,
                32, 32, 32, 32>>)
  ELSE IF x = max_x(s) /\ y = max_y(s) THEN
    ZeroBased(<<pixel(s, x, y - 1), 32, 32, 32,
                32, 32, pixel(s, x - 1, y), pixel(s, x - 1, y - 1)>>)
  ELSE IF x = 0 THEN
    ZeroBased(<<pixel(s, x, y - 1), pixel(s, x + 1, y - 1), pixel(s, x + 1, y), pixel(s, x + 1, y + 1),
                pixel(s, x, y + 1), 32, 32, 32>>)
  ELSE IF x = max_x(s) THEN
    ZeroBased(<<pixel(s, x, y - 1), 32, 32, 32,
                pixel(s, x, y + 1), pixel(s, x - 1, y + 1), pixel(s, x - 1, y), pixel(s, x - 1, y - 1)>>)
  ELSE IF y = 0 THEN
    ZeroBased(<<32, 32, pixel(s, x + 1, y), pixel(s, x + 1, y + 1),
                pixel(s, x, y + 1), pixel(s, x - 1, y + 1), pixel(s, x - 1, y), 32>>)
  ELSE IF y = max_y(s) THEN
    ZeroBased(<<pixel(s, x, y - 1), pixel(s, x + 1, y - 1), pixel(s, x + 1, y), 32,
                32, 32, pixel(s, x - 1, y), pixel(s, x - 1, y - 1)>>)
  ELSE
    ZeroBased(<<pixel(s, x, y - 1), pixel(s, x + 1, y - 1), pixel(s, x + 1, y), pixel(s, x + 1, y + 1),
                pixel(s, x, y + 1), pixel(s, x - 1, y + 1), pixel(s, x - 1, y), pixel(s, x - 1, y - 1)>>)

lib_rn(s) ==
  LET n == lib_neighbors(s) IN
  IF s.args.outline
  THEN (IF n[s.o[7]] < 32 /\ n[s.o[0]] < 32 THEN 1
        ELSE IF n[s.o[0]] < 32 THEN 2
        ELSE IF n[s.o[1]] < 32 /\ n[s.o[2]] < 32 THEN 3
        ELSE 0)
  ELSE (IF n[s.o[1]] > 32 /\ n[s.o[0]] > 32 THEN 1
        ELSE IF n[s.o[0]] > 32 THEN 2
        ELSE IF n[s.o[7]] > 32 /\ n[s.o[6]] > 32 THEN 3
        ELSE 0)

\* One step of single_l8_to_paths of lib.rs from the state s.
lib_step(s) ==
  CASE at_l8_rewrite(s) -> l8_rewrite(s)
    [] at_l8_row_start(s) -> l8_row_start(s)
    [] at_l8_return(s) -> finish(s)
    [] at_l8_outline_start(s) -> trace_single_l8(s, L8OutlineArgs)
    [] at_l8_hole_start(s) -> trace_single_l8(s, L8HoleArgs)
    [] at_l8_levels(s) -> l8_levels(s)
    [] in_l8(s, "walk") /\ lib_rn(s) = 1 -> l8_walk_1(s)
    [] in_l8(s, "walk") /\ lib_rn(s) = 2 -> l8_walk_2(s)
    [] in_l8(s, "walk") /\ lib_rn(s) = 3 -> l8_walk_3(s)
    [] in_l8(s, "walk") /\ lib_rn(s) = 0 -> l8_walk_0(s)
    [] at_l8_close_turn(s) -> l8_close_turn(s)
    [] at_l8_close_return(s) -> l8_close_return(s)
    [] OTHER -> s


\* C30: the copy of the image tracer in lib.rs is equivalent to the one in
\* image.rs: for every buffer reached, of every size, and every position of
\* the tracer in it, the sixteen cases of lib.rs give the eight values that
\* the clamped lookups of image.rs give; and from every state every step of
\* image.rs is the step lib.rs makes, so that the two return the same
\* string and leave the same buffer.
At(s, x, y) == [s EXCEPT !.tracer_x = x, !.tracer_y = y]

NeighboursAgree ==
  fn = "single_l8_to_paths" =>
    \A x \in 0..max_x(State), y \in 0..max_y(State) :
      lib_neighbors(At(State, x, y)) = l8_neighbors(At(State, x, y))

SameStep == fn = "single_l8_to_paths" => State' = lib_step(State)

CopiesEquivalent ==
  /\ []NeighboursAgree
  /\ [][SameStep]_vars

\* A trace in a buffer one pixel wide and three high is at the middle pixel
\* and goes straight on.
CopiesWitness ==
  /\ fn = "single_l8_to_paths" /\ pc = "walk"
  /\ buffer.width = 1 /\ buffer.height = 3
  /\ tracer_y = 1
  /\ lib_rn(State) = 2

====
